---- MODULE Spec2Model ----
(***************************************************************************)
(* A model of the Ollama models manager: run (cli.py) scanning a source    *)
(* registry and copying, deleting or moving the selected models            *)
(* (operations.py), with the index of get_all_hashes (models.py).          *)
(*                                                                         *)
(* A string is a sequence of tokens, so that the two conversions of the    *)
(* code, the display name "{ns/}{model}:{version}" and                     *)
(* digest.replace(":", "-"), are computed and not assumed injective.       *)
(* A file is the sequence of its bytes (tokens); its size is its length.   *)
(* A directory is the function from the names in it to their contents.     *)
(***************************************************************************)
EXTENDS Integers, Sequences, FiniteSets, TLC

VARIABLES
    manifests,      \* [from, to]: manifest path -> bytes of the manifest file
    blobs,          \* [from, to]: blob file name -> bytes of the blob file
    dirs,           \* [from, to]: the directories that exist
    mode,           \* permission bits of the directories: the source's blobs,
                    \* namespace and model directories, the destination's root
                    \* and blobs directory
    readonly,       \* source registry: files os.access(f, W_OK) refuses
    pc,             \* where the process is
    action,         \* run's action argument
    always_replace, \* run's always_replace argument
    target_models,  \* run's target_models: as given, and after the :latest rule
    queue,          \* found_models still to process
    cur,            \* the model being processed
    all_hashes,     \* the index built once by get_all_hashes
    files_data,     \* files_data of the running copy_model / delete_model
    idx,            \* position of the running loop over files_data
    result,         \* how the last copy_model / delete_model call ended
    exit_code,      \* exit status of the last invocation (-1: none yet)
    started,        \* history: the source registry when the invocation began
    before,         \* history: both registries when cur's processing began
    log,            \* history: what the running copy_model did with each file
    copied          \* history: models an earlier copy_model call of action copy
                    \* returned for, the source unchanged since

vars == <<manifests, blobs, dirs, mode, readonly, pc, action, always_replace,
          target_models, queue, cur, all_hashes, files_data, idx, result, exit_code,
          started, before, log, copied>>

-----------------------------------------------------------------------------
(* Bounds *)

\* how many models of the catalogue the source registry holds at most
MaxModels == 2

-----------------------------------------------------------------------------
(* Strings *)

Library == <<"library">>
Latest == <<"latest">>

MediaV2 == <<"application/vnd.docker.distribution.manifest.v2+json">>
MediaV1 == <<"application/vnd.docker.container.image.v1+json">>
MediaOCI == <<"application/vnd.oci.image.manifest.v1+json">>

\* (mutant) the OCI manifest type is accepted too
AllowedMediaTypesWithOCI == {MediaV2, MediaV1, MediaOCI}

AllowedMediaTypes == {MediaV2, MediaV1}

\* ns = "" if namespace == "library" else f"{namespace}/";  f"{ns}{model}:{version}"
ModelName(namespace, model, version) ==
    (IF namespace = Library THEN <<>> ELSE namespace \o <<"/">>)
        \o model \o <<":">> \o version

\* digest.replace(":", "-")
HashName(digest) ==
    [k \in 1..Len(digest) |-> IF digest[k] = ":" THEN "-" ELSE digest[k]]

\* (mutant) no name is taken to hold a version tag
HasColonNever(name) == FALSE

\* ":" in model_name
HasColon(name) == \E k \in 1..Len(name) : name[k] = ":"

-----------------------------------------------------------------------------
(* Manifest files: the JSON text is the token sequence                     *)
(*   mediaType, config, layer*, end                                        *)
(* and anything else (a truncated text, say) does not parse.               *)

Tok(k, v, n) == [k |-> k, v |-> v, n |-> n]

ManifestText(media, config, layers) ==
    <<Tok("mediaType", media, 0), Tok("config", config.digest, config.size)>>
        \o [k \in 1..Len(layers) |-> Tok("layer", layers[k].digest, layers[k].size)]
        \o <<Tok("end", <<>>, 0)>>

\* json.load succeeds (no JSONDecodeError)
ParsesOK(text) ==
    /\ Len(text) >= 3
    /\ text[1].k = "mediaType"
    /\ text[2].k = "config"
    /\ text[Len(text)].k = "end"
    /\ \A k \in 3..(Len(text) - 1) : text[k].k = "layer"

json_load(text) ==
    [mediaType |-> text[1].v,
     config    |-> [digest |-> text[2].v, size |-> text[2].n],
     layers    |-> [k \in 1..(Len(text) - 3) |->
                        [digest |-> text[k + 2].v, size |-> text[k + 2].n]]]

-----------------------------------------------------------------------------
(* The catalogue: the models a registry may hold, each with its manifest.  *)

D1 == <<"sha", ":", "1">>
D2 == <<"sha", ":", "2">>
D3 == <<"sha", ":", "3">>
D4 == <<"sha", ":", "4">>

Triple(ns, m, v) == [namespace |-> ns, model |-> m, version |-> v]

Ta == Triple(Library, <<"a">>, Latest)
Tb == Triple(Library, <<"b">>, Latest)
\* a second version of model a whose tag reads like the blob name of D3
Tc == Triple(Library, <<"a">>, <<"sha", "-", "3">>)
Tu == Triple(<<"u">>, <<"a">>, Latest)
\* two directory triples that read alike once joined: model p with version
\* q:latest, and model p:q with version latest
Tp == Triple(Library, <<"p">>, <<"q", ":", "latest">>)
Tq == Triple(Library, <<"p", ":", "q">>, Latest)

Colliding == {Tp, Tq}

Catalogue == {Ta, Tb, Tc, Tu} \cup Colliding

Blob(d, n) == [digest |-> d, size |-> n]

\* a:latest and b:latest share the layer D1; a lists its small layer first
ManifestOf(t) ==
    CASE t = Ta -> ManifestText(MediaV2, Blob(D2, 1), <<Blob(D4, 1), Blob(D1, 2)>>)
      [] t = Tb -> ManifestText(MediaV1, Blob(D3, 1), <<Blob(D1, 2)>>)
      [] t = Tc -> ManifestText(MediaV2, Blob(D2, 1), <<>>)
      [] t = Tu -> ManifestText(MediaOCI, Blob(D3, 1), <<>>)
      [] t = Tp -> ManifestText(MediaV2, Blob(D2, 1), <<Blob(D1, 2)>>)
      [] t = Tq -> ManifestText(MediaV2, Blob(D3, 1), <<Blob(D1, 2)>>)

BlobNames == {HashName(D1), HashName(D2), HashName(D3), HashName(D4)}

\* the bytes of the blob a digest names
BlobData(f) == IF f = HashName(D1) THEN <<"x", "x">> ELSE <<"x">>

\* stale destination content: same size and other bytes, or a shorter file
\* (a manifest cut short does not parse)
OtherBytes(data) == [k \in 1..Len(data) |-> IF data[k] = "x" THEN "y" ELSE "x"]
Shorter(data) == SubSeq(data, 1, Len(data) - 1)
OtherManifest(text) ==
    [k \in 1..Len(text) |-> IF text[k].k = "config"
                              THEN Tok("config", <<"sha", ":", "0">>, text[k].n)
                              ELSE text[k]]

-----------------------------------------------------------------------------
(* Paths and the file system *)

Registries == {"from", "to"}

BlobsDir == <<"blobs">>
ManifestsTop == <<"manifests">>
\* os.path.join(internal_dir, "manifests/registry.ollama.ai/")
ManifestsRoot == <<"manifests", "/", "registry.ollama.ai">>
NamespaceDir(t) == ManifestsRoot \o <<"/">> \o t.namespace
\* os.path.dirname(model.path)
ManifestDir(t) == NamespaceDir(t) \o <<"/">> \o t.model

\* utils.path_check on a manifest path / a blob path / a directory
path_check_manifest(reg, t) == t \in DOMAIN manifests[reg]
path_check_blob(reg, f) == f \in DOMAIN blobs[reg]
path_check_dir(reg, d) == d \in dirs[reg]

\* os.listdir(manifest_dir): the versions in a model's directory
ListDir(reg, d) == {t \in DOMAIN manifests[reg] : ManifestDir(t) = d}

RWX == {"r", "w", "x"}
RX == {"r", "x"}
Modes == {RWX, RX}

\* os.access(dir, bits) in the source registry
AccessDir(d, bits) ==
    /\ path_check_dir("from", d)
    /\ bits \subseteq (IF d = BlobsDir THEN mode.blobs
                       ELSE IF \E t \in Catalogue : d = ManifestDir(t) THEN mode.leaf
                       ELSE mode.ns)


\* os.access(file, os.W_OK) in the source registry
AccessManifestW(t) == path_check_manifest("from", t) /\ t \notin readonly.manifests
AccessBlobW(f) == path_check_blob("from", f) /\ f \notin readonly.blobs

-----------------------------------------------------------------------------
(* models.py *)

ModelInfo(t, hashes) ==
    [namespace  |-> t.namespace,
     model      |-> t.model,
     version    |-> t.version,
     model_name |-> ModelName(t.namespace, t.model, t.version),
     hashes     |-> hashes]

\* ModelInfo.path, the manifest file of the model
Path(m) == Triple(m.namespace, m.model, m.version)

NoModel == ModelInfo(Triple(<<>>, <<>>, <<>>), <<>>)

\* os.listdir fixes no order: the manifests are listed in catalogue order or
\* in its reverse, so that every two models are met both ways round
Rank(t) ==
    CASE t = Ta -> 1 [] t = Tb -> 2 [] t = Tc -> 3 [] t = Tu -> 4 [] t = Tp -> 5 [] t = Tq -> 6

Ascending(S) ==
    [k \in 1..Cardinality(S) |->
        CHOOSE t \in S : Cardinality({u \in S : Rank(u) < Rank(t)}) = k - 1]

Reverse(seq) == [k \in 1..Len(seq) |-> seq[Len(seq) + 1 - k]]

ListingOrders(S) == {Ascending(S), Reverse(Ascending(S))}

\* find_models: one descriptor per manifest, in listing order, hashes None
find_models(order) == [k \in 1..Len(order) |-> ModelInfo(order[k], <<>>)]

\* the hash list get_all_hashes builds from one manifest
Hashes(manifest_data) ==
    <<HashName(manifest_data.config.digest)>>
        \o [k \in 1..Len(manifest_data.layers) |-> HashName(manifest_data.layers[k].digest)]

\* get_all_hashes: a manifest that does not parse is skipped
get_all_hashes(order) ==
    LET Readable(t) == ParsesOK(manifests.from[t])
        parsed == SelectSeq(order, Readable)
    IN [k \in 1..Len(parsed) |-> ModelInfo(parsed[k], Hashes(json_load(manifests.from[parsed[k]])))]

-----------------------------------------------------------------------------
(* operations.py: the files of a model *)

ManifestEntry(m) == [is_manifest |-> TRUE, filename |-> m.version]
BlobEntry(digest) == [is_manifest |-> FALSE, filename |-> HashName(digest)]

\* sorted(layers, key=size, reverse=True): stable, largest first
InsertBySize(sorted, layer) ==
    LET n == Cardinality({k \in 1..Len(sorted) : sorted[k].size >= layer.size})
    IN SubSeq(sorted, 1, n) \o <<layer>> \o SubSeq(sorted, n + 1, Len(sorted))

RECURSIVE SortedLayers(_)
SortedLayers(layers) ==
    IF layers = <<>> THEN <<>>
    ELSE InsertBySize(SortedLayers(SubSeq(layers, 1, Len(layers) - 1)), layers[Len(layers)])

\* (mutant) the layers are taken in the order of the manifest
CopyLayerOrderAsListed(layers) == layers

\* the order copy_model lists the layers in
CopyLayerOrder(layers) == SortedLayers(layers)

\* files_data of copy_model: manifest, config, layers largest first
CopyFilesData(m, manifest_data) ==
    LET layers == CopyLayerOrder(manifest_data.layers)
    IN <<ManifestEntry(m), BlobEntry(manifest_data.config.digest)>>
           \o [k \in 1..Len(layers) |-> BlobEntry(layers[k].digest)]

\* files_data of delete_model: manifest, config, layers in manifest order
DeleteFilesData(m, manifest_data) ==
    <<ManifestEntry(m), BlobEntry(manifest_data.config.digest)>>
        \o [k \in 1..Len(manifest_data.layers) |-> BlobEntry(manifest_data.layers[k].digest)]

\* path_check(file["filepath"]) and the bytes at it, in registry reg
FileExists(reg, file, m) ==
    IF file.is_manifest THEN path_check_manifest(reg, Path(m))
    ELSE path_check_blob(reg, file.filename)

\* os.path.getsize of the file in registry reg
FileSize(reg, file, m) ==
    IF file.is_manifest THEN Len(manifests[reg][Path(m)])
    ELSE Len(blobs[reg][file.filename])


\* the bytes of the file in registry reg
FileData(reg, file, m) ==
    IF file.is_manifest THEN manifests[reg][Path(m)] ELSE blobs[reg][file.filename]

\* os.path.dirname(from_path)
ParentDir(file, m) == IF file.is_manifest THEN ManifestDir(Path(m)) ELSE BlobsDir

Range(seq) == {seq[k] : k \in 1..Len(seq)}

-----------------------------------------------------------------------------
(* operations.py: the decisions of copy_model and delete_model *)

\* (mutant) the preflight looks for the manifest and the config blob only
MissingSourceConfigOnly(files, m) ==
    \E k \in 1..Len(files) : k <= 2 /\ ~FileExists("from", files[k], m)

\* copy_model's preflight: some file of files_data is not in the source
MissingSource(files, m) == \E k \in 1..Len(files) : ~FileExists("from", files[k], m)

\* (mutant) a file present in the destination is skipped whatever its size
CopySkipsIfPresent(file, m) == FileExists("to", file, m) /\ ~always_replace

\* (mutant) the flag is read the wrong way round
CopySkipsWhenReplacing(file, m) ==
    /\ FileExists("to", file, m)
    /\ FileSize("from", file, m) = FileSize("to", file, m)
    /\ always_replace

\* copy_model: the destination file exists with the source's size and
\* always_replace is off, so the file is skipped
CopySkips(file, m) ==
    /\ FileExists("to", file, m)
    /\ FileSize("from", file, m) = FileSize("to", file, m)
    /\ ~always_replace

\* delete_model's permission check of one file
PermissionOK(file, m) ==
    \/ IF file.is_manifest THEN AccessManifestW(Path(m)) ELSE AccessBlobW(file.filename)
    \/ (AccessDir(ParentDir(file, m), {"r", "x"}) /\ AccessDir(ParentDir(file, m), {"w"}))

\* (mutant) only the manifest file is checked
PreflightManifestOnly(files, m) == PermissionOK(files[1], m)

\* delete_model's preflight: every file of files_data passes the check
PreflightPasses(files, m) == \A k \in 1..Len(files) : PermissionOK(files[k], m)

\* (mutant) the model's own entry stays in the list
OtherHashesUnfiltered(hashes, m) == hashes

\* all_hashes = [h for h in all_hashes if h.model_name != model.model_name]
OtherHashes(hashes, m) ==
    LET Differs(h) == h.model_name # m.model_name
    IN SelectSeq(hashes, Differs)

\* (mutant) only the config hash of each other model is looked at
CloneListConfigOnly(file, others) ==
    LET Uses(h) == h.hashes # <<>> /\ file.filename = h.hashes[1]
        users == SelectSeq(others, Uses)
    IN [k \in 1..Len(users) |-> users[k].model_name]

\* clone_list: the other models whose hashes hold the file's name
CloneList(file, others) ==
    LET Uses(h) == h.hashes # <<>> /\ file.filename \in Range(h.hashes)
        users == SelectSeq(others, Uses)
    IN [k \in 1..Len(users) |-> users[k].model_name]

\* os.remove(from_path) succeeds: the file is there and its directory can be
\* written and searched; otherwise it raises, which delete_model catches
RemoveSucceeds(file, m) ==
    /\ FileExists("from", file, m)
    /\ AccessDir(ParentDir(file, m), {"w", "x"})

\* move_model goes on to delete_model once copy_model has returned
AfterCopy == IF action = "move" THEN "delete_model" ELSE "run"

-----------------------------------------------------------------------------
(* The initial registries *)

Dist(kind, blob, model, variant) ==
    [kind |-> kind, blob |-> blob, model |-> model, variant |-> variant]

Referenced(installed) ==
    UNION {Range(Hashes(json_load(ManifestOf(t)))) : t \in installed}

PermVariants ==
    {"blobs_dir", "blobs_tree", "leaf_dir", "leaf_tree", "ns_dir", "to_root", "to_blobs"}
AbsentVariants == {"registry_dir", "manifests_dir"}
StaleVariants == {"other", "short"}

Disturbances(installed) ==
    {Dist("missing", f, Ta, "") : f \in Referenced(installed)}
        \cup {Dist("stale_blob", f, Ta, v) : f \in Referenced(installed), v \in StaleVariants}
        \cup {Dist("stale_manifest", <<>>, t, v) : t \in installed, v \in StaleVariants}
        \cup {Dist("corrupt", <<>>, t, "") : t \in installed}
        \cup {Dist("perm", <<>>, Ta, v) : v \in PermVariants}
        \cup {Dist("absent", <<>>, Ta, v) : v \in IF installed = {} THEN AbsentVariants ELSE {}}

\* an initial registry is disturbed in at most one way
DisturbanceSets(installed) == {{}} \cup {{d} : d \in Disturbances(installed)}

Stale(data, other, variant) == IF variant = "other" THEN other ELSE Shorter(data)

NoTargets == [given |-> {}, tagged |-> {}]
NoFiles == [from |-> <<>>, to |-> <<>>]
NoSnapshot == [manifests |-> NoFiles, blobs |-> NoFiles, dirs |-> [from |-> {}, to |-> {}]]
Snapshot == [manifests |-> manifests, blobs |-> blobs, dirs |-> dirs]

\* the registries a source may be: up to MaxModels models of the catalogue,
\* the two colliding ones only as the pair they are
Installable ==
    {S \in SUBSET Catalogue :
        Cardinality(S) <= MaxModels /\ (S \cap Colliding = {} \/ S = Colliding)}

Init ==
    \E installed \in Installable :
      \E ds \in DisturbanceSets(installed) :
        LET missing == {d.blob : d \in {e \in ds : e.kind = "missing"}}
            staleB == {d \in ds : d.kind = "stale_blob"}
            staleM == {d \in ds : d.kind = "stale_manifest"}
            corrupt == {d.model : d \in {e \in ds : e.kind = "corrupt"}}
            perms == {d.variant : d \in {e \in ds : e.kind = "perm"}}
            absent == {d.variant : d \in {e \in ds : e.kind = "absent"}}
        IN /\ manifests =
                [from |-> [t \in installed |-> IF t \in corrupt THEN Shorter(ManifestOf(t))
                                                ELSE ManifestOf(t)],
                 to   |-> [t \in {d.model : d \in staleM} |->
                              LET d == CHOOSE e \in staleM : e.model = t
                              IN Stale(ManifestOf(t), OtherManifest(ManifestOf(t)), d.variant)]]
           /\ blobs =
                [from |-> [f \in Referenced(installed) \ missing |-> BlobData(f)],
                 to   |-> [f \in {d.blob : d \in staleB} |->
                              LET d == CHOOSE e \in staleB : e.blob = f
                              IN Stale(BlobData(f), OtherBytes(BlobData(f)), d.variant)]]
           /\ dirs =
                [from |-> ({BlobsDir, ManifestsTop, ManifestsRoot}
                              \cup {NamespaceDir(t) : t \in installed}
                              \cup {ManifestDir(t) : t \in installed})
                            \ ((IF "registry_dir" \in absent THEN {ManifestsRoot} ELSE {})
                                \cup (IF "manifests_dir" \in absent
                                      THEN {ManifestsTop, ManifestsRoot} ELSE {})),
                 to   |-> (IF staleB = {} /\ "to_blobs" \notin perms THEN {} ELSE {BlobsDir})
                              \cup {NamespaceDir(d.model) : d \in staleM}
                              \cup {ManifestDir(d.model) : d \in staleM}]
           /\ mode =
                [blobs |-> IF perms \cap {"blobs_dir", "blobs_tree"} # {} THEN RX ELSE RWX,
                 leaf  |-> IF perms \cap {"leaf_dir", "leaf_tree"} # {} THEN RX ELSE RWX,
                 ns    |-> IF "ns_dir" \in perms THEN RX ELSE RWX,
                 to_root  |-> IF "to_root" \in perms THEN RX ELSE RWX,
                 to_blobs |-> IF "to_blobs" \in perms THEN RX ELSE RWX]
           /\ readonly =
                [blobs     |-> IF "blobs_tree" \in perms THEN BlobNames ELSE {},
                 manifests |-> IF "leaf_tree" \in perms THEN Catalogue ELSE {}]
           /\ pc = "idle"
           /\ action = "none"
           /\ always_replace = FALSE
           /\ target_models = NoTargets
           /\ queue = <<>>
           /\ cur = NoModel
           /\ all_hashes = <<>>
           /\ files_data = <<>>
           /\ idx = 0
           /\ result = "none"
           /\ exit_code = -1
           /\ started = NoSnapshot
           /\ before = NoSnapshot
           /\ log = <<>>
           /\ copied = {}

-----------------------------------------------------------------------------
(* The process *)

fs == <<manifests, blobs, dirs>>
env == <<mode, readonly>>

\* (mutant) the process ends without reporting the failure: status 0
FinishStatusZero(code, why) ==
    /\ pc' = "idle"
    /\ exit_code' = 0
    /\ result' = why
    /\ action' = "none"
    /\ always_replace' = FALSE
    /\ target_models' = [given |-> {}, tagged |-> {}]
    /\ queue' = <<>>
    /\ cur' = NoModel
    /\ all_hashes' = <<>>
    /\ files_data' = <<>>
    /\ idx' = 0
    /\ started' = NoSnapshot
    /\ before' = NoSnapshot
    /\ log' = <<>>

\* the process ends: exit(code), or main returning (code 0); result keeps
\* what the process printed last
Finish(code, why) ==
    /\ pc' = "idle"
    /\ exit_code' = code
    /\ result' = why
    /\ action' = "none"
    /\ always_replace' = FALSE
    /\ target_models' = NoTargets
    /\ queue' = <<>>
    /\ cur' = NoModel
    /\ all_hashes' = <<>>
    /\ files_data' = <<>>
    /\ idx' = 0
    /\ started' = NoSnapshot
    /\ before' = NoSnapshot
    /\ log' = <<>>

\* the names a user may ask for
RequestNames ==
    {<<"a">>, <<"b", ":", "latest">>, <<"a", ":", "sha", "-", "3">>, <<"u", "/", "a">>, <<"zz">>,
     <<"p", ":", "q">>}

\* run, up to its loop: the directory checks, find_models, the selection,
\* get_all_hashes
run_start(act, all_models, given, replace, order) ==
    /\ pc = "idle"
    /\ UNCHANGED <<fs, env, copied>>
    /\ IF ~(path_check_dir("from", BlobsDir) /\ path_check_dir("from", ManifestsTop))
       THEN Finish(1, "does not exist")
       ELSE IF ~path_check_dir("from", ManifestsRoot)
       THEN Finish(1, "could not find manifests directory")
       ELSE IF Len(order) = 0
       THEN Finish(1, "no models")
       ELSE
        LET models == find_models(order)
            wanted == IF all_models THEN {models[k].model_name : k \in 1..Len(models)}
                      ELSE given
            tagged == {IF HasColon(n) THEN n ELSE n \o <<":">> \o Latest : n \in wanted}
            Wanted(m) == m.model_name \in tagged
            found_models == SelectSeq(models, Wanted)
            needs_index == act \in {"delete", "move"}
            hashes == IF needs_index THEN get_all_hashes(order) ELSE <<>>
        IN IF Len(found_models) = 0 THEN Finish(0, "no match")
           ELSE IF needs_index /\ Len(hashes) = 0 THEN Finish(1, "no models")
           ELSE /\ pc' = "run"
                /\ action' = act
                /\ always_replace' = replace
                /\ target_models' = [given |-> wanted, tagged |-> tagged]
                /\ queue' = found_models
                /\ all_hashes' = hashes
                /\ exit_code' = -1
                /\ result' = "none"
                /\ started' = Snapshot
                /\ UNCHANGED <<cur, files_data, idx, before, log>>

\* run's loop: the next model of found_models, or the end (target_models is
\* not read again once found_models is built)
run_next ==
    /\ pc = "run"
    /\ UNCHANGED <<fs, env>>
    /\ copied' = IF action = "copy" /\ result \in {"copied", "skipped"}
                 THEN copied \cup {Path(cur)}
                 ELSE copied
    /\ IF queue = <<>> THEN Finish(0, "done")
       ELSE /\ cur' = Head(queue)
            /\ queue' = Tail(queue)
            /\ pc' = IF action = "delete" THEN "delete_model" ELSE "copy_model"
            /\ result' = "none"
            /\ before' = Snapshot
            /\ log' = <<>>
            /\ target_models' = NoTargets
            /\ UNCHANGED <<action, always_replace, all_hashes, files_data, idx,
                           exit_code, started>>

\* copy_model up to its loop: the manifest is read and checked, files_data
\* built, and every source file looked for
copy_model_preflight ==
    /\ pc = "copy_model"
    /\ UNCHANGED <<fs, env, copied>>
    /\ IF ~path_check_manifest("from", Path(cur)) THEN Finish(1, "does not exist")
       ELSE IF ~ParsesOK(manifests.from[Path(cur)]) THEN Finish(1, "error reading manifest")
       ELSE
        LET manifest_data == json_load(manifests.from[Path(cur)])
            files == CopyFilesData(cur, manifest_data)
        IN IF manifest_data.mediaType \notin AllowedMediaTypes
           THEN Finish(1, "unsupported media type")
           ELSE IF MissingSource(files, cur)
           THEN /\ pc' = AfterCopy
                /\ result' = "skipped"
                /\ UNCHANGED <<action, always_replace, target_models, queue, cur, all_hashes,
                               files_data, idx, exit_code, started, before, log>>
           ELSE /\ pc' = "copy_loop"
                /\ files_data' = files
                /\ idx' = 1
                /\ UNCHANGED <<action, always_replace, target_models, queue, cur, all_hashes,
                               result, exit_code, started, before, log>>

\* (mutant) the file is opened for writing in the source registry, which
\* truncates it before the first chunk is read
WriteFileInSource(file, m, data) ==
    /\ manifests' = IF file.is_manifest
                    THEN [manifests EXCEPT !.from = (Path(m) :> <<>>) @@ @]
                    ELSE manifests
    /\ blobs' = IF file.is_manifest
                THEN blobs
                ELSE [blobs EXCEPT !.from = (file.filename :> <<>>) @@ @]
    /\ UNCHANGED dirs

\* the destination registry with the file written
WriteFile(file, m, data) ==
    /\ manifests' = IF file.is_manifest
                    THEN [manifests EXCEPT !.to = (Path(m) :> data) @@ @]
                    ELSE manifests
    /\ blobs' = IF file.is_manifest
                THEN blobs
                ELSE [blobs EXCEPT !.to = (file.filename :> data) @@ @]
    /\ dirs' = [dirs EXCEPT !.to =
                    @ \cup (IF file.is_manifest
                            THEN {ManifestsTop, ManifestsRoot, NamespaceDir(Path(m)),
                                  ManifestDir(Path(m))}
                            ELSE {BlobsDir})]

\* os.makedirs(os.path.dirname(to_path), exist_ok=True) raises
\* PermissionError: a directory has to be made in the destination root and
\* the root cannot be written
MakedirsDenied(file) ==
    /\ ~path_check_dir("to", IF file.is_manifest THEN ManifestsTop ELSE BlobsDir)
    /\ ~({"w", "x"} \subseteq mode.to_root)

\* open(to_path, 'wb') raises PermissionError: the blob file is not there
\* and the destination's blobs directory cannot be written
OpenDenied(file, m) ==
    /\ ~file.is_manifest
    /\ ~FileExists("to", file, m)
    /\ ~({"w", "x"} \subseteq mode.to_blobs)

\* one turn of copy_model's loop: the file is skipped or copied whole.
\* os.makedirs stands before the try block, so that its PermissionError
\* leaves copy_model (and move_model) and is caught by run, which prints it
\* and returns: main ends with status 0. The PermissionError of open is
\* caught in copy_model, which calls exit(1).
copy_model_file ==
    /\ pc = "copy_loop"
    /\ UNCHANGED <<env, copied>>
    /\ IF ~CopySkips(files_data[idx], cur) /\ MakedirsDenied(files_data[idx])
       THEN UNCHANGED fs /\ Finish(0, "error processing models")
       ELSE IF ~CopySkips(files_data[idx], cur) /\ OpenDenied(files_data[idx], cur)
       THEN UNCHANGED fs /\ Finish(1, "permission denied while copying")
       ELSE
        /\ IF CopySkips(files_data[idx], cur)
           THEN /\ UNCHANGED fs
                /\ log' = Append(log, [filename |-> files_data[idx].filename, did |-> "skipped"])
           ELSE /\ WriteFile(files_data[idx], cur, FileData("from", files_data[idx], cur))
                /\ log' = Append(log, [filename |-> files_data[idx].filename, did |-> "copied"])
        /\ IF idx = Len(files_data)
           THEN /\ pc' = AfterCopy
                /\ result' = "copied"
                /\ UNCHANGED idx
           ELSE /\ idx' = idx + 1
                /\ UNCHANGED <<pc, result>>
        /\ UNCHANGED <<action, always_replace, target_models, queue, cur, all_hashes,
                       files_data, exit_code, started, before>>

\* delete_model up to its deletion loop: the manifest is read, files_data
\* built, and the permissions checked
delete_model_preflight ==
    /\ pc = "delete_model"
    /\ UNCHANGED <<fs, env, copied>>
    /\ IF ~path_check_manifest("from", Path(cur)) THEN Finish(1, "does not exist")
       ELSE IF ~ParsesOK(manifests.from[Path(cur)]) THEN Finish(1, "error reading manifest")
       ELSE
        LET files == DeleteFilesData(cur, json_load(manifests.from[Path(cur)]))
        IN IF ~PreflightPasses(files, cur) THEN Finish(1, "permission denied")
           ELSE /\ pc' = "delete_loop"
                /\ files_data' = files
                /\ idx' = 1
                /\ UNCHANGED <<action, always_replace, target_models, queue, cur, all_hashes,
                               result, exit_code, started, before, log>>

\* the source registry with the file removed
RemoveFile(file, m) ==
    /\ manifests' = IF file.is_manifest
                    THEN [manifests EXCEPT !.from =
                              [t \in (DOMAIN @) \ {Path(m)} |-> @[t]]]
                    ELSE manifests
    /\ blobs' = IF file.is_manifest
                THEN blobs
                ELSE [blobs EXCEPT !.from =
                          [f \in (DOMAIN @) \ {file.filename} |-> @[f]]]
    /\ UNCHANGED dirs

\* the file is deleted in this turn of delete_model's loop
Deletes(file, m) ==
    /\ CloneList(file, OtherHashes(all_hashes, m)) = <<>>
    /\ RemoveSucceeds(file, m)

\* one turn of delete_model's loop
delete_model_file ==
    /\ pc = "delete_loop"
    /\ UNCHANGED env
    /\ IF Deletes(files_data[idx], cur)
       THEN RemoveFile(files_data[idx], cur) /\ copied' = {}
       ELSE UNCHANGED <<fs, copied>>
    /\ IF idx = Len(files_data)
       THEN pc' = "delete_dir" /\ UNCHANGED idx
       ELSE idx' = idx + 1 /\ UNCHANGED pc
    /\ UNCHANGED <<action, always_replace, target_models, queue, cur, all_hashes, files_data,
                   result, exit_code, started, before, log>>

\* (mutant) the directory is removed without looking into it
RemovesDirUnlisted(d) ==
    /\ path_check_dir("from", d)
    /\ AccessDir(NamespaceDir(Path(cur)), {"w", "x"})

\* os.rmdir(manifest_dir) is tried and succeeds
RemovesDir(d) ==
    /\ path_check_dir("from", d)
    /\ AccessDir(d, {"r"})
    /\ ListDir("from", d) = {}
    /\ AccessDir(NamespaceDir(Path(cur)), {"w", "x"})

\* the end of delete_model: the manifest directory is removed if empty
delete_model_rmdir ==
    /\ pc = "delete_dir"
    /\ UNCHANGED <<manifests, blobs, env, copied>>
    /\ dirs' = IF RemovesDir(ManifestDir(Path(cur)))
               THEN [dirs EXCEPT !.from = @ \ {ManifestDir(Path(cur))}]
               ELSE dirs
    /\ pc' = "run"
    /\ result' = "deleted"
    /\ UNCHANGED <<action, always_replace, target_models, queue, cur, all_hashes, files_data, idx,
                   exit_code, started, before, log>>

\* run --all, the models met in either listing order
run_all ==
    \E act \in {"copy", "delete", "move"}, replace \in BOOLEAN,
       order \in ListingOrders(DOMAIN manifests.from) :
        /\ act = "delete" => ~replace
        /\ run_start(act, TRUE, {}, replace, order)

\* run --models name (one name matches one model at most in the catalogue,
\* so the listing order makes no difference)
run_named ==
    \E act \in {"copy", "delete", "move"}, replace \in BOOLEAN, name \in RequestNames :
        /\ act = "delete" => ~replace
        /\ run_start(act, FALSE, {name}, replace, Ascending(DOMAIN manifests.from))

Next ==
    \/ run_all
    \/ run_named
    \/ run_next
    \/ copy_model_preflight
    \/ copy_model_file
    \/ delete_model_preflight
    \/ delete_model_file
    \/ delete_model_rmdir

Spec == Init /\ [][Next]_vars

-----------------------------------------------------------------------------
(* Copying with interruptions: the process may be killed (Ctrl-C, a signal) *)
(* while copy_model's loop runs. Nothing in main, run or copy_model catches *)
(* KeyboardInterrupt, so that the process ends where it stands.            *)

\* the process is killed while the loop stands at a file: before the file
\* is touched, or in the middle of writing it, which leaves its directory
\* made and the file holding a proper prefix of the source's bytes (none
\* yet, or all but the last chunk)
copy_model_interrupt ==
    /\ pc = "copy_loop"
    /\ UNCHANGED <<env, copied>>
    /\ \/ UNCHANGED fs
       \/ /\ ~CopySkips(files_data[idx], cur)
          /\ ~MakedirsDenied(files_data[idx])
          /\ ~OpenDenied(files_data[idx], cur)
          /\ \E data \in {<<>>, Shorter(FileData("from", files_data[idx], cur))} :
                WriteFile(files_data[idx], cur, data)
    /\ Finish(130, "interrupted")

\* run --action copy, for all models or a named one
run_copy ==
    \E replace \in BOOLEAN, order \in ListingOrders(DOMAIN manifests.from) :
        run_start("copy", TRUE, {}, replace, order)

run_copy_named ==
    \E replace \in BOOLEAN, name \in RequestNames :
        run_start("copy", FALSE, {name}, replace, Ascending(DOMAIN manifests.from))

\* the source registry is complete, the destination registry is empty and
\* can be written
InitInterrupt ==
    /\ Init
    /\ ManifestsRoot \in dirs.from
    /\ \A t \in DOMAIN manifests.from : manifests.from[t] = ManifestOf(t)
    /\ DOMAIN blobs.from = Referenced(DOMAIN manifests.from)
    /\ manifests.to = <<>>
    /\ blobs.to = <<>>
    /\ dirs.to = {}
    /\ \A d \in DOMAIN mode : mode[d] = RWX
    /\ readonly = [blobs |-> {}, manifests |-> {}]

NextInterrupt ==
    \/ run_copy
    \/ run_copy_named
    \/ run_next
    \/ copy_model_preflight
    \/ copy_model_file
    \/ copy_model_interrupt

SpecInterrupt == InitInterrupt /\ [][NextInterrupt]_vars


-----------------------------------------------------------------------------
(* Vocabulary of the properties *)

NameA == ModelName(Library, <<"a">>, Latest)
NameB == ModelName(Library, <<"b">>, Latest)
LayerD == HashName(D1)
ConfigA == HashName(D2)

\* the blob names a manifest of the directory ms refers to
Refs(ms, t) == Range(Hashes(json_load(ms[t])))

NamesOf(ms) == {ModelName(t.namespace, t.model, t.version) : t \in DOMAIN ms}

\* every manifest parses and every blob it names is there
WellFormed(ms, bs) ==
    \A t \in DOMAIN ms : ParsesOK(ms[t]) /\ Refs(ms, t) \subseteq DOMAIN bs

\* some entry of the index, not the current model's, lists the blob name
ReferencedByOthers(f) ==
    \E k \in 1..Len(all_hashes) :
        all_hashes[k].model_name # cur.model_name /\ f \in Range(all_hashes[k].hashes)

InDelete == pc \in {"delete_model", "delete_loop", "delete_dir"}
DeleteReturned == pc = "run" /\ result = "deleted"
CopyReturned == result = "copied" /\ pc \in {"run", "delete_model"}

SourceFileRemoved == manifests'.from # manifests.from \/ blobs'.from # blobs.from
SourceUnchanged ==
    manifests'.from = manifests.from /\ blobs'.from = blobs.from /\ dirs'.from = dirs.from
DestUnchanged ==
    manifests'.to = manifests.to /\ blobs'.to = blobs.to /\ dirs'.to = dirs.to

\* the process may remove entries of the blobs and manifest directories
PermissionsAllow == {"w", "x"} \subseteq mode.blobs /\ {"w", "x"} \subseteq mode.leaf

-----------------------------------------------------------------------------
\* C1: during delete_model of the current model, a blob whose name is in the
\* hashes of an index entry with another model_name is never removed: it is
\* in the source after every step, with the bytes it had.
C1_ReferencedBlobsSurvive ==
    [][\A f \in DOMAIN blobs.from :
          (InDelete /\ ReferencedByOthers(f))
              => (f \in DOMAIN blobs'.from /\ blobs'.from[f] = blobs.from[f])]_vars

\* delete_model has removed the manifest and left a blob another model lists
C1_Witness ==
    /\ pc = "delete_dir"
    /\ Path(cur) \notin DOMAIN manifests.from
    /\ \E k \in 1..Len(files_data) :
          /\ ~files_data[k].is_manifest
          /\ ReferencedByOthers(files_data[k].filename)
          /\ files_data[k].filename \in DOMAIN blobs.from

\* C2 (as claimed): when the invocation began with every manifest parseable
\* and every referenced blob present, then after each delete_model call of
\* the invocation every manifest still on disk has all its blobs on disk.
C2_RetainedModelsKeepBlobs ==
    (/\ pc = "run"
     /\ action \in {"delete", "move"}
     /\ WellFormed(started.manifests.from, started.blobs.from))
        => WellFormed(manifests.from, blobs.from)

\* C3 (as claimed): a step of move_model removes a source file of the model
\* only when the destination holds the manifest and every blob of the model.
C3_NoDeleteBeforeRelocated ==
    [][(action = "move" /\ SourceFileRemoved)
          => \A k \in 1..Len(files_data) : FileExists("to", files_data[k], cur)]_vars

\* no other manifest of the source names a blob of t
Unshared(ms, t) ==
    \A u \in (DOMAIN ms) \ {t} : ParsesOK(ms[u]) => Refs(ms, u) \cap Refs(ms, t) = {}

\* C4 (as claimed): when move_model of a model sharing no blob has returned,
\* the destination holds the manifest and every blob with the bytes the
\* source held before, the source holds none of them, and the manifest
\* directory is gone if it is empty.
C4_MoveRelocates ==
    (/\ DeleteReturned
     /\ action = "move"
     /\ ParsesOK(before.manifests.from[Path(cur)])
     /\ Unshared(before.manifests.from, Path(cur)))
        => LET t == Path(cur)
               refs == Refs(before.manifests.from, t)
           IN /\ t \in DOMAIN manifests.to
              /\ manifests.to[t] = before.manifests.from[t]
              /\ t \notin DOMAIN manifests.from
              /\ \A f \in refs :
                    /\ f \in DOMAIN before.blobs.from
                    /\ f \in DOMAIN blobs.to
                    /\ blobs.to[f] = before.blobs.from[f]
                    /\ f \notin DOMAIN blobs.from
              /\ (ListDir("from", ManifestDir(t)) = {}
                    => ~path_check_dir("from", ManifestDir(t)))

\* delete_model of a:latest has returned in the registry of a:latest and
\* b:latest, whose manifests both list the layer D
DeletedA ==
    /\ DeleteReturned
    /\ cur.model_name = NameA
    /\ NamesOf(before.manifests.from) = {NameA, NameB}
    /\ \A t \in DOMAIN before.manifests.from :
          /\ ParsesOK(before.manifests.from[t])
          /\ LayerD \in Refs(before.manifests.from, t)
    /\ PermissionsAllow

\* delete_model of b:latest has returned, begun when a:latest was gone
DeletedBAfterA ==
    /\ DeleteReturned
    /\ cur.model_name = NameB
    /\ NamesOf(before.manifests.from) = {NameB}
    /\ PermissionsAllow

\* deleting a:latest leaves the shared layer D and removes a's config blob
C5_DeletingAKeepsD ==
    DeletedA => /\ (LayerD \in DOMAIN before.blobs.from => LayerD \in DOMAIN blobs.from)
                /\ ConfigA \notin DOMAIN blobs.from

C6_CopiedSizesMatch ==
    CopyReturned =>
        LET t == Path(cur)
        IN /\ t \in DOMAIN manifests.to
           /\ Len(manifests.to[t]) = Len(manifests.from[t])
           /\ \A f \in Refs(manifests.from, t) :
                 f \in DOMAIN blobs.to /\ Len(blobs.to[f]) = Len(blobs.from[f])

\* copy_model returned with always_replace off where the destination held a
\* file of the model with another size
C6_Witness ==
    /\ CopyReturned
    /\ ~always_replace
    /\ LET t == Path(cur)
       IN \/ /\ t \in DOMAIN before.manifests.to
             /\ Len(before.manifests.to[t]) # Len(manifests.from[t])
          \/ \E f \in Refs(manifests.from, t) :
                /\ f \in DOMAIN before.blobs.to
                /\ Len(before.blobs.to[f]) # Len(blobs.from[f])

\* copy_model runs with always_replace off for a model an earlier copy_model
\* call returned for, the source unchanged since
SecondCopy ==
    /\ action = "copy"
    /\ ~always_replace
    /\ pc \in {"copy_model", "copy_loop", "run"}
    /\ cur # NoModel
    /\ Path(cur) \in copied

\* C7: the second copy_model run skips every file and leaves the
\* destination registry as the first run left it.
C7_SecondCopyWritesNothing ==
    SecondCopy =>
        /\ \A k \in 1..Len(log) : log[k].did = "skipped"
        /\ manifests.to = before.manifests.to
        /\ blobs.to = before.blobs.to
        /\ dirs.to = before.dirs.to

\* a second run that went through all the files of the model
C7_Witness ==
    /\ SecondCopy
    /\ pc = "run"
    /\ result = "copied"
    /\ Len(log) = Len(files_data)
    /\ Len(log) >= 2

\* copy_model begins for a model whose manifest names a blob the source lacks
BlobMissing ==
    /\ pc = "copy_model"
    /\ path_check_manifest("from", Path(cur))
    /\ ParsesOK(manifests.from[Path(cur)])
    /\ \E f \in Refs(manifests.from, Path(cur)) : ~path_check_blob("from", f)

\* C8 (as claimed): with a referenced blob missing, copy_model changes
\* nothing in the destination and the invocation goes on, it does not exit.
C8_MissingBlobNeverAborts ==
    [][BlobMissing => (DestUnchanged /\ pc' \in {"run", "delete_model"})]_vars

\* C8 (amended): with a referenced blob missing, copy_model changes nothing
\* in the destination; when the manifest's mediaType is one of the two
\* allowed it returns as skipped, leaving found_models as it is, so that
\* run goes on with the next model (move_model with delete_model); with
\* another mediaType the process exits with status 1.
C8_MissingBlobSkipsModel ==
    [][BlobMissing =>
          /\ DestUnchanged
          /\ IF json_load(manifests.from[Path(cur)]).mediaType \in {MediaV2, MediaV1}
             THEN /\ result' = "skipped"
                  /\ pc' = (IF action = "move" THEN "delete_model" ELSE "run")
                  /\ queue' = queue
                  /\ cur' = cur
             ELSE pc' = "idle" /\ exit_code' = 1]_vars

\* a model was skipped, nothing written, and another model waits in the batch
C8_Witness ==
    /\ pc = "run"
    /\ action = "copy"
    /\ result = "skipped"
    /\ queue # <<>>
    /\ manifests.to = before.manifests.to
    /\ blobs.to = before.blobs.to

\* the permission check refuses the file: the file is not writable (or not
\* there) and its directory is not readable, writable and searchable
ManifestDenied(t) == t \in readonly.manifests /\ ~(RWX \subseteq mode.leaf)
BlobDenied(f) ==
    (f \notin DOMAIN blobs.from \/ f \in readonly.blobs) /\ ~(RWX \subseteq mode.blobs)

PreflightFails ==
    /\ pc = "delete_model"
    /\ path_check_manifest("from", Path(cur))
    /\ ParsesOK(manifests.from[Path(cur)])
    /\ \/ ManifestDenied(Path(cur))
       \/ \E f \in Refs(manifests.from, Path(cur)) : BlobDenied(f)

\* C9: when the permission check refuses one file of the model, nothing of
\* the source registry is removed and the process exits with status 1, no
\* model left to process.
C9_DeniedPreflightAborts ==
    [][PreflightFails =>
          (SourceUnchanged /\ pc' = "idle" /\ exit_code' = 1 /\ queue' = <<>>)]_vars

\* the process has exited on a refused permission check, past a manifest
\* that passed it, with the registry whole
C9_Witness ==
    /\ pc = "idle"
    /\ exit_code = 1
    /\ result = "permission denied"
    /\ readonly.manifests = {}
    /\ mode.leaf = RWX
    /\ WellFormed(manifests.from, blobs.from)
    /\ manifests.from # <<>>

\* C10 (as claimed): once the preflight has passed, no removal of the loop
\* is refused for lack of permission, and the manifest is never gone while
\* a blob no other model lists stays because its removal was refused.
C10_NoRemovalDenied ==
    /\ pc = "delete_loop" =>
          LET file == files_data[idx]
          IN (CloneList(file, OtherHashes(all_hashes, cur)) = <<>>
                  /\ FileExists("from", file, cur))
                => {"w", "x"} \subseteq (IF file.is_manifest THEN mode.leaf ELSE mode.blobs)
    /\ pc = "delete_dir" =>
          ~(/\ Path(cur) \notin DOMAIN manifests.from
            /\ \E k \in 2..Len(files_data) :
                  /\ ~ReferencedByOthers(files_data[k].filename)
                  /\ files_data[k].filename \in DOMAIN blobs.from)


\* copy_model begins for a model whose manifest parses and has a mediaType
\* other than the two allowed
UnsupportedMedia ==
    /\ pc = "copy_model"
    /\ path_check_manifest("from", Path(cur))
    /\ ParsesOK(manifests.from[Path(cur)])
    /\ json_load(manifests.from[Path(cur)]).mediaType \notin {MediaV2, MediaV1}

\* C11: when copy_model meets a manifest with a mediaType that is not
\* allowed, in copy and in move, nothing is written in the destination,
\* nothing is removed from the source, and the process exits with status 1
\* with no model left to process.
C11_UnsupportedMediaAborts ==
    [][UnsupportedMedia =>
          (DestUnchanged /\ SourceUnchanged /\ pc' = "idle" /\ exit_code' = 1
              /\ queue' = <<>>)]_vars

\* the process has exited on the unsupported manifest, a second model of the
\* registry not copied
C11_Witness ==
    /\ pc = "idle"
    /\ exit_code = 1
    /\ result = "unsupported media type"
    /\ Cardinality(DOMAIN manifests.from) = 2
    /\ manifests.to = <<>>
    /\ blobs.to = <<>>

\* copying the current file meets a permission failure: the file is not
\* skipped, and the directory cannot be made or the file cannot be opened
CopyPermissionFailure ==
    /\ pc = "copy_loop"
    /\ ~(/\ FileExists("to", files_data[idx], cur)
         /\ FileSize("to", files_data[idx], cur) = FileSize("from", files_data[idx], cur)
         /\ ~always_replace)
    /\ (MakedirsDenied(files_data[idx]) \/ OpenDenied(files_data[idx], cur))

\* C12 (as claimed): on a permission failure while copying a file, no
\* further model is processed and the process exits with status 1.
C12_CopyDeniedExitsOne ==
    [][CopyPermissionFailure => (pc' = "idle" /\ queue' = <<>> /\ exit_code' = 1)]_vars

NoManifestsRoot == ~path_check_dir("from", ManifestsRoot)

\* C13: when the source registry has no manifests/registry.ollama.ai
\* directory, every invocation (copy, delete, move; all models or named
\* ones) ends with status 1 and leaves both registries as they were.
C13_NoManifestsRootFails ==
    [][(pc = "idle" /\ NoManifestsRoot) =>
          (SourceUnchanged /\ DestUnchanged /\ pc' = "idle" /\ exit_code' = 1)]_vars

\* an invocation has failed on a registry that has manifests/ but not
\* manifests/registry.ollama.ai
C13_Witness ==
    /\ pc = "idle"
    /\ exit_code = 1
    /\ NoManifestsRoot
    /\ path_check_dir("from", ManifestsTop)
    /\ path_check_dir("from", BlobsDir)


\* C14 (as claimed): the descriptors of one scan, those run takes from
\* find_models and those of the index of get_all_hashes, that bear the same
\* model_name are of the same (namespace, model, version) directory triple.
C14_NamesUnique ==
    /\ \A i, j \in 1..Len(queue) :
          queue[i].model_name = queue[j].model_name => Path(queue[i]) = Path(queue[j])
    /\ \A i, j \in 1..Len(all_hashes) :
          all_hashes[i].model_name = all_hashes[j].model_name
              => Path(all_hashes[i]) = Path(all_hashes[j])

\* run has built found_models and has not begun its loop
JustSelected == pc = "run" /\ cur = NoModel

\* C15: in run, a requested name without ":" is matched as name:latest and
\* not as given, a name with ":" is matched as given, nothing else is
\* matched, and found_models holds exactly the scanned models whose
\* model_name is one of the resulting names, each once.
C15_LatestRule ==
    JustSelected =>
        /\ \A n \in target_models.given :
              IF \E k \in 1..Len(n) : n[k] = ":"
              THEN n \in target_models.tagged
              ELSE /\ Append(Append(n, ":"), "latest") \in target_models.tagged
                   /\ n \notin target_models.tagged
        /\ \A s \in target_models.tagged :
              \E n \in target_models.given :
                  s = n \/ s = Append(Append(n, ":"), "latest")
        /\ {Path(queue[k]) : k \in 1..Len(queue)}
              = {t \in DOMAIN manifests.from :
                    ModelName(t.namespace, t.model, t.version) \in target_models.tagged}
        /\ \A i, j \in 1..Len(queue) : Path(queue[i]) = Path(queue[j]) => i = j

\* the name a was asked for and a:latest was found
C15_Witness ==
    /\ JustSelected
    /\ target_models.given = {<<"a">>}
    /\ Len(queue) = 1
    /\ queue[1].model_name = NameA
    /\ Cardinality(DOMAIN manifests.from) = 2

\* C17 (as claimed): in an invocation of delete or move, a blob that two
\* models of the registry both list, once both models are deleted, is still
\* in the blobs directory of the source.
C17_SharedBlobLeaks ==
    action \in {"delete", "move"} =>
        \A t, u \in DOMAIN started.manifests.from :
            (/\ t # u
             /\ t \notin DOMAIN manifests.from
             /\ u \notin DOMAIN manifests.from
             /\ ParsesOK(started.manifests.from[t])
             /\ ParsesOK(started.manifests.from[u]))
                => \A f \in Refs(started.manifests.from, t) \cap Refs(started.manifests.from, u) :
                      f \in DOMAIN started.blobs.from => f \in DOMAIN blobs.from

\* C18 (as claimed): when delete_model's loop comes to the manifest file,
\* the file there and its directory open to removal, the manifest is
\* removed, whatever the index holds.
C18_ManifestAlwaysRemoved ==
    [][(/\ pc = "delete_loop"
        /\ files_data[idx].is_manifest
        /\ path_check_manifest("from", Path(cur))
        /\ {"w", "x"} \subseteq mode.leaf)
          => ~(Path(cur) \in DOMAIN manifests'.from)]_vars

\* C20: copy_model's list of files is the manifest, then the config blob,
\* then the layer blobs of the manifest, each once, in non-increasing order
\* of their manifest size; the files handled so far are the first of that
\* list, in its order.
C20_CopyOrder ==
    pc = "copy_loop" =>
        LET manifest_data == json_load(manifests.from[Path(cur)])
            layers == manifest_data.layers
            SizeOf(f) == layers[CHOOSE k \in 1..Len(layers) : HashName(layers[k].digest) = f].size
        IN /\ Len(files_data) = Len(layers) + 2
           /\ files_data[1] = [is_manifest |-> TRUE, filename |-> cur.version]
           /\ files_data[2] = [is_manifest |-> FALSE,
                               filename |-> HashName(manifest_data.config.digest)]
           /\ \A k \in 3..Len(files_data) : ~files_data[k].is_manifest
           /\ {files_data[k].filename : k \in 3..Len(files_data)}
                 = {HashName(layers[k].digest) : k \in 1..Len(layers)}
           /\ \A i, j \in 3..Len(files_data) :
                 i < j => SizeOf(files_data[i].filename) >= SizeOf(files_data[j].filename)
           /\ Len(log) = idx - 1
           /\ \A k \in 1..Len(log) : log[k].filename = files_data[k].filename

\* the manifest, the config blob and the larger layer are handled, the
\* larger layer standing second in the manifest and copied first
C20_Witness ==
    /\ pc = "copy_loop"
    /\ Len(log) = 3
    /\ log[3].did = "copied"
    /\ log[3].filename = HashName(json_load(manifests.from[Path(cur)]).layers[2].digest)
    /\ idx = 4


\* C19: under SpecInterrupt (an empty destination at first, copy runs that
\* may be interrupted at any file, before it or in the middle of writing it,
\* the source never changed): when a copy_model run with always_replace off
\* has returned, every file of the model is in the destination with the
\* bytes of the source file, and every file that the destination held with
\* other bytes when the run began was copied again, not skipped.
C19_RerunCompletes ==
    (CopyReturned /\ ~always_replace) =>
        \A k \in 1..Len(files_data) :
            /\ FileExists("to", files_data[k], cur)
            /\ FileData("to", files_data[k], cur) = FileData("from", files_data[k], cur)
            /\ (/\ (IF files_data[k].is_manifest
                    THEN Path(cur) \in DOMAIN before.manifests.to
                    ELSE files_data[k].filename \in DOMAIN before.blobs.to)
                /\ (IF files_data[k].is_manifest
                    THEN before.manifests.to[Path(cur)]
                    ELSE before.blobs.to[files_data[k].filename])
                       # FileData("from", files_data[k], cur))
                  => log[k].did = "copied"

\* a rerun has returned where an interrupted run had left the two-byte
\* layer half written
C19_Witness ==
    /\ CopyReturned
    /\ ~always_replace
    /\ LayerD \in DOMAIN before.blobs.to
    /\ Len(before.blobs.to[LayerD]) = 1
    /\ Len(blobs.to[LayerD]) = 2
    /\ \E k \in 1..Len(files_data) :
          files_data[k].filename = LayerD /\ log[k].did = "copied"


\* the manifests of the source registry that parse
Parsing == {t \in DOMAIN manifests.from : ParsesOK(manifests.from[t])}

\* C21 (as claimed): a run on a registry that holds a manifest file does not
\* end for want of models in the index, and the index a delete or move run
\* gets from get_all_hashes has one entry for each manifest that parses and
\* no other, listing the config digest and then the layer digests in the
\* manifest's order, "-" standing for ":".
C21_IndexBestEffort ==
    [][(pc = "idle" /\ DOMAIN manifests.from # {}) =>
          /\ result' # "no models"
          /\ (pc' = "run" /\ action' \in {"delete", "move"}) =>
                /\ Len(all_hashes') = Cardinality(Parsing)
                /\ \A t \in Parsing :
                      \E k \in 1..Len(all_hashes') :
                          /\ Path(all_hashes'[k]) = t
                          /\ Len(all_hashes'[k].hashes) = Len(manifests.from[t]) - 2
                          /\ \A j \in 1..Len(all_hashes'[k].hashes) :
                                LET digest == manifests.from[t][j + 1].v
                                IN all_hashes'[k].hashes[j] =
                                      [c \in 1..Len(digest) |->
                                          IF digest[c] = ":" THEN "-" ELSE digest[c]]]_vars


\* the blob file names the manifest of the current model named when its
\* processing began
TargetBlobs ==
    LET text == before.manifests.from[Path(cur)]
        Dash(digest) == [c \in 1..Len(digest) |-> IF digest[c] = ":" THEN "-" ELSE digest[c]]
    IN {Dash(text[k].v) : k \in {j \in 1..Len(text) : text[j].k \in {"config", "layer"}}}

\* C22: every step of delete_model, in delete and in move, leaves the
\* destination registry as it is and removes from the source nothing but
\* the manifest file of the current model, blobs its manifest names and
\* the directory of that manifest, the latter only when no manifest is left
\* in it; what stays keeps its bytes; and the last step, which tries the
\* directory, returns to run with the model reported deleted whether or not
\* the directory went.
C22_DeleteFrame ==
    [][InDelete =>
          /\ DestUnchanged
          /\ \A t \in DOMAIN manifests.from :
                t # Path(cur) =>
                    (t \in DOMAIN manifests'.from /\ manifests'.from[t] = manifests.from[t])
          /\ DOMAIN manifests'.from \subseteq DOMAIN manifests.from
          /\ \A f \in DOMAIN blobs.from :
                f \notin TargetBlobs =>
                    (f \in DOMAIN blobs'.from /\ blobs'.from[f] = blobs.from[f])
          /\ DOMAIN blobs'.from \subseteq DOMAIN blobs.from
          /\ dirs'.from \subseteq dirs.from
          /\ dirs.from \ dirs'.from \subseteq {ManifestsRoot \o <<"/">> \o cur.namespace
                                                  \o <<"/">> \o cur.model}
          /\ dirs'.from # dirs.from =>
                /\ pc = "delete_dir"
                /\ \A t \in DOMAIN manifests'.from :
                      ~(t.namespace = cur.namespace /\ t.model = cur.model)
          /\ pc = "delete_dir" => (pc' = "run" /\ result' = "deleted" /\ exit_code' = exit_code)]_vars

\* a:latest is deleted, and the manifest of a:sha-3 and the directory the
\* two shared are still there
C22_Witness ==
    /\ DeleteReturned
    /\ Path(cur) = Ta
    /\ Ta \notin DOMAIN manifests.from
    /\ Tc \in DOMAIN manifests.from
    /\ ManifestDir(Ta) \in dirs.from


InCopy == pc \in {"copy_model", "copy_loop"}

\* C23: every step of copy_model, in copy and in move, whether it copies a
\* file, skips one, skips the model or ends the process, leaves the source
\* registry as it is: the same manifests and blobs with the same bytes, the
\* same directories.
C23_CopyKeepsSource ==
    [][InCopy =>
          /\ DOMAIN manifests'.from = DOMAIN manifests.from
          /\ \A t \in DOMAIN manifests.from : manifests'.from[t] = manifests.from[t]
          /\ DOMAIN blobs'.from = DOMAIN blobs.from
          /\ \A f \in DOMAIN blobs.from : blobs'.from[f] = blobs.from[f]
          /\ dirs'.from = dirs.from]_vars

\* a copy run has written the manifest and the blobs of b:latest into the
\* destination and the source is what it was when the run began
C23_Witness ==
    /\ CopyReturned
    /\ action = "copy"
    /\ cur.model_name = NameB
    /\ \A k \in 1..Len(log) : log[k].did = "copied"
    /\ Len(log) = Len(files_data)
    /\ manifests.from = started.manifests.from
    /\ blobs.from = started.blobs.from
    /\ dirs.from = started.dirs.from

====
